---- MODULE Spec2Model ----
(***************************************************************************)
(* Model of app.py, the Streamlit zero-shot classifier page.               *)
(*                                                                         *)
(* Strings are sequences of one-character strings, so that replace, split  *)
(* and strip are computed character by character as Python computes them.  *)
(* A Streamlit script run executes app.py from top to bottom: StartRun     *)
(* (fresh namespace), the cached model load of line 30, then the widgets   *)
(* and the "Clasificar" button handler of lines 47-111.                    *)
(***************************************************************************)
EXTENDS Integers, Sequences, FiniteSets, TLC

VARIABLES
    pc,                  \* position of the script run
    handle,              \* st.cache_resource entry of load_zero_shot_pipeline
    loads,               \* how many times pipeline(...) built a model
    calls,               \* how many times clf(...) was invoked
    texto,               \* widget values of the current run
    raw_labels,
    multi_label,
    hypothesis_template,
    sort_desc,
    clicked,             \* st.button return value
    labels,              \* parse_labels(raw_labels)
    request,             \* keyword arguments handed to clf, or NoRequest
    result,              \* what clf returned, or NoResult
    df,                  \* rows of the DataFrame built, or NoDf
    shown,               \* elements rendered by the handler, in order
    failure              \* exception raised during this run, or "none"

vars == <<pc, handle, loads, calls, texto, raw_labels, multi_label,
          hypothesis_template, sort_desc, clicked, labels, request, result,
          df, shown, failure>>

-----------------------------------------------------------------------------
(* Bounds *)

MaxLen == 5

MaxRaw == 3

MaxPairs == 3

MaxScore == 2

MaxCalls == 1

-----------------------------------------------------------------------------
(* Characters and strings *)

LabelChars == {"a", "b", ",", "\n", " "}

\* characters str.strip() removes
Whitespace == {" ", "\n", "\t"}

Strs(chars, n) == UNION {[1..k -> chars] : k \in 0..n}

NoRequest ==
    [sequences |-> <<>>, candidate_labels |-> <<>>, multi_label |-> FALSE,
     hypothesis_template |-> <<>>]

NoResult == [labels |-> <<>>, scores |-> <<>>]

NoDf == <<>>

NoHandle == 0

Min(S) == CHOOSE x \in S : \A y \in S : x <= y

Max(S) == CHOOSE x \in S : \A y \in S : x >= y

Reverse(s) == [i \in 1..Len(s) |-> s[Len(s) + 1 - i]]

\* str.replace(old, new) for one-character old and new
Replace(s, old, new) == [i \in 1..Len(s) |-> IF s[i] = old THEN new ELSE s[i]]

\* str.split(sep) for a one-character sep: one piece more than separators
RECURSIVE Split(_, _)
Split(s, sep) ==
    LET hits == {i \in 1..Len(s) : s[i] = sep}
    IN  IF hits = {} THEN <<s>>
        ELSE LET i == Min(hits)
             IN  <<SubSeq(s, 1, i - 1)>> \o Split(SubSeq(s, i + 1, Len(s)), sep)

\* str.strip()
Strip(s) ==
    LET keep == {i \in 1..Len(s) : s[i] \notin Whitespace}
    IN  IF keep = {} THEN <<>> ELSE SubSeq(s, Min(keep), Max(keep))

NonEmpty(p) == p # <<>>

parse_labels_no_strip(raw) ==
    SelectSeq(Split(Replace(raw, "\n", ","), ","), NonEmpty)

parse_labels_commas_only(raw) ==
    LET pieces == Split(raw, ",")
        parts  == [i \in 1..Len(pieces) |-> Strip(pieces[i])]
    IN  SelectSeq(parts, NonEmpty)

parse_labels(raw) ==
    LET pieces == Split(Replace(raw, "\n", ","), ",")
        parts  == [i \in 1..Len(pieces) |-> Strip(pieces[i])]
    IN  SelectSeq(parts, NonEmpty)

-----------------------------------------------------------------------------
(* Result shaping, lines 86-97 *)

Zip_truncated(a, b) == [i \in 1..(Min({Len(a), Len(b)}) - 1) |-> <<a[i], b[i]>>]

Zip(a, b) == [i \in 1..Min({Len(a), Len(b)}) |-> <<a[i], b[i]>>]

\* insert x behind every element whose key is <= the key of x
InsertByScore(x, srt) ==
    LET le == {i \in 1..Len(srt) : srt[i][2] <= x[2]}
        k  == IF le = {} THEN 0 ELSE Max(le)
    IN  SubSeq(srt, 1, k) \o <<x>> \o SubSeq(srt, k + 1, Len(srt))

\* list.sort on key x[1]: ascending and stable
RECURSIVE StableSort(_)
StableSort(s) ==
    IF s = <<>> THEN <<>>
    ELSE InsertByScore(s[Len(s)], StableSort(SubSeq(s, 1, Len(s) - 1)))

sorted_ascending(pairs, reverse) == StableSort(pairs)

sorted_then_reversed(pairs, reverse) ==
    IF reverse THEN Reverse(StableSort(pairs)) ELSE StableSort(pairs)

\* sorted(pairs, key=lambda x: x[1], reverse=reverse): CPython reverses the
\* list, sorts it ascending and stable, and reverses it again
sorted_by_score(pairs, reverse) ==
    IF reverse THEN Reverse(StableSort(Reverse(pairs))) ELSE StableSort(pairs)

to_df(ls, scs) == [i \in 1..Len(ls) |-> [Etiqueta |-> ls[i], Puntaje |-> scs[i]]]

Shape_always_sorted(res, sd) ==
    LET pairs == sorted_by_score(Zip(res.labels, res.scores), TRUE)
    IN  to_df([i \in 1..Len(pairs) |-> pairs[i][1]],
              [i \in 1..Len(pairs) |-> pairs[i][2]])

Shape(res, sd) ==
    LET out_labels == res.labels
        out_scores == res.scores
        pairs      == sorted_by_score(Zip(out_labels, out_scores), TRUE)
    IN  IF sd
        THEN to_df([i \in 1..Len(pairs) |-> pairs[i][1]],
                   [i \in 1..Len(pairs) |-> pairs[i][2]])
        ELSE to_df(out_labels, out_scores)

-----------------------------------------------------------------------------
(* The inference capability: transformers' zero-shot pipeline, as the script
   uses it on lines 76-81 and 109 *)

FormatError == <<"ValueError">>

Cat(x, r) == IF r = FormatError THEN FormatError ELSE x \o r

\* str.format(arg) with one positional argument: "{}" is the slot, "{{" and
\* "}}" are escaped braces, and every other brace raises
RECURSIVE FormatFrom(_, _, _)
FormatFrom(t, arg, used) ==
    IF t = <<>> THEN <<>>
    ELSE LET c == Head(t)
             rest == Tail(t)
         IN  IF c \notin {"{", "}"} THEN Cat(<<c>>, FormatFrom(rest, arg, used))
             ELSE IF rest = <<>> THEN FormatError
             ELSE IF Head(rest) = c THEN Cat(<<c>>, FormatFrom(Tail(rest), arg, used))
             ELSE IF c = "{" /\ Head(rest) = "}" /\ used = 0
                  THEN Cat(arg, FormatFrom(Tail(rest), arg, used + 1))
             ELSE FormatError

Format(t, arg) == FormatFrom(t, arg, 0)

DefaultTemplate == <<"t", "{", "}">>

Templates == {DefaultTemplate, <<"t">>, <<"{">>}

Etiqueta == <<"e">>

\* the pipeline rejects a template that cannot be formatted with the first
\* label or that formatting leaves unchanged
TemplateRejected(req) ==
    LET h == Format(req.hypothesis_template, req.candidate_labels[1])
    IN  h = FormatError \/ h = req.hypothesis_template

Perms(n) == {f \in [1..n -> 1..n] : \A i, j \in 1..n : f[i] = f[j] => i = j}

\* what clf(...) may return: the candidate labels in some order, each with a
\* score, the two lists aligned
Returns(req) ==
    LET cand == req.candidate_labels
        n    == Len(cand)
    IN  IF TemplateRejected(req) THEN {}
        ELSE {[labels |-> [i \in 1..n |-> cand[f[i]]], scores |-> sc] :
                 f \in Perms(n), sc \in [1..n -> 0..MaxScore]}

\* what clf(...) may raise
Raises(req) == IF TemplateRejected(req) THEN {"template"} ELSE {"runtime"}

Caught_runtime_only(e) == e = "runtime"

\* except Exception, line 82
Caught(e) == TRUE

TextoVacio_no_strip(t) == t = <<>>

\* not texto.strip(), line 67
TextoVacio(t) == Strip(t) = <<>>

\* not labels, line 70
SinEtiquetas(ls) == ls = <<>>

CacheNever(h) == FALSE

\* st.cache_resource: the function body runs only when no entry is cached
CacheHit(h) == h # NoHandle

-----------------------------------------------------------------------------
(* Script runs *)

FreshRun ==
    /\ texto' = <<>>
    /\ raw_labels' = <<>>
    /\ multi_label' = TRUE
    /\ hypothesis_template' = DefaultTemplate
    /\ sort_desc' = TRUE
    /\ clicked' = FALSE
    /\ labels' = <<>>
    /\ request' = NoRequest
    /\ result' = NoResult
    /\ df' = NoDf
    /\ shown' = <<>>
    /\ failure' = "none"

Init ==
    /\ pc = "start"
    /\ handle = NoHandle
    /\ loads = 0
    /\ calls = 0
    /\ texto = <<>>
    /\ raw_labels = <<>>
    /\ multi_label = TRUE
    /\ hypothesis_template = DefaultTemplate
    /\ sort_desc = TRUE
    /\ clicked = FALSE
    /\ labels = <<>>
    /\ request = NoRequest
    /\ result = NoResult
    /\ df = NoDf
    /\ shown = <<>>
    /\ failure = "none"

\* A user action makes Streamlit run the script again in a fresh namespace;
\* only the resource cache survives.
StartRun ==
    /\ pc \in {"done", "stopped", "uncaught"}
    /\ pc' = "start"
    /\ FreshRun
    /\ UNCHANGED <<handle, loads, calls>>

Unbound ==
    UNCHANGED <<texto, raw_labels, multi_label, hypothesis_template, sort_desc,
                clicked, labels, request, result, df, shown>>

\* line 30, the entry is cached
LoadCached ==
    /\ pc = "start"
    /\ CacheHit(handle)
    /\ pc' = "loaded"
    /\ UNCHANGED <<handle, loads, calls, failure>>
    /\ Unbound

\* line 30, pipeline(...) builds the model and the cache keeps it
LoadModel ==
    /\ pc = "start"
    /\ ~CacheHit(handle)
    /\ loads' = loads + 1
    /\ handle' = loads + 1
    /\ pc' = "loaded"
    /\ UNCHANGED <<calls, failure>>
    /\ Unbound

\* line 30, pipeline(...) raises: nothing is cached and nothing catches it
LoadFails ==
    /\ pc = "start"
    /\ ~CacheHit(handle)
    /\ failure' = "load"
    /\ pc' = "uncaught"
    /\ UNCHANGED <<handle, loads, calls>>
    /\ Unbound

\* lines 47-62: the widgets return what the user entered
Widgets(t, r, m, h, s, c) ==
    /\ texto' = t
    /\ raw_labels' = r
    /\ multi_label' = m
    /\ hypothesis_template' = h
    /\ sort_desc' = s
    /\ clicked' = c

Textos == {<<>>, <<" ">>, <<"x">>, <<" ", "x">>}

Raws == Strs(LabelChars, MaxRaw)

\* the button was not pressed: line 64 is false
RunNoClick ==
    /\ pc = "loaded"
    /\ \E t \in Textos, r \in Raws, m \in BOOLEAN, h \in Templates, s \in BOOLEAN :
          Widgets(t, r, m, h, s, FALSE)
    /\ pc' = "done"
    /\ UNCHANGED <<handle, loads, calls, labels, request, result, df, shown, failure>>

\* lines 64-69
ClassifyNoText ==
    /\ pc = "loaded"
    /\ \E t \in Textos, r \in Raws, m \in BOOLEAN, h \in Templates, s \in BOOLEAN :
          /\ Widgets(t, r, m, h, s, TRUE)
          /\ labels' = parse_labels(r)
          /\ TextoVacio(t)
    /\ shown' = <<<<"warning", "texto">>>>
    /\ pc' = "stopped"
    /\ UNCHANGED <<handle, loads, calls, request, result, df, failure>>

\* lines 64-72
ClassifyNoLabels ==
    /\ pc = "loaded"
    /\ \E t \in Textos, r \in Raws, m \in BOOLEAN, h \in Templates, s \in BOOLEAN :
          /\ Widgets(t, r, m, h, s, TRUE)
          /\ labels' = parse_labels(r)
          /\ ~TextoVacio(t)
          /\ SinEtiquetas(parse_labels(r))
    /\ shown' = <<<<"warning", "etiqueta">>>>
    /\ pc' = "stopped"
    /\ UNCHANGED <<handle, loads, calls, request, result, df, failure>>

Request(t, ls, m, h) ==
    [sequences |-> t, candidate_labels |-> ls, multi_label |-> m,
     hypothesis_template |-> h]

\* lines 64-84, clf raises
ClassifyError ==
    /\ pc = "loaded"
    /\ calls < MaxCalls
    /\ \E t \in Textos, r \in Raws, m \in BOOLEAN, h \in Templates, s \in BOOLEAN :
          /\ Widgets(t, r, m, h, s, TRUE)
          /\ labels' = parse_labels(r)
          /\ ~TextoVacio(t)
          /\ ~SinEtiquetas(parse_labels(r))
          /\ request' = Request(t, parse_labels(r), m, h)
          /\ \E e \in Raises(Request(t, parse_labels(r), m, h)) :
                /\ failure' = e
                /\ IF Caught(e)
                   THEN shown' = <<<<"error", e>>>> /\ pc' = "stopped"
                   ELSE shown' = <<>> /\ pc' = "uncaught"
    /\ calls' = calls + 1
    /\ UNCHANGED <<handle, loads, result, df>>

\* lines 64-111, clf returns
ClassifyOK ==
    /\ pc = "loaded"
    /\ calls < MaxCalls
    /\ \E t \in Textos, r \in Raws, m \in BOOLEAN, h \in Templates, s \in BOOLEAN :
          /\ Widgets(t, r, m, h, s, TRUE)
          /\ labels' = parse_labels(r)
          /\ ~TextoVacio(t)
          /\ ~SinEtiquetas(parse_labels(r))
          /\ request' = Request(t, parse_labels(r), m, h)
          /\ \E res \in Returns(Request(t, parse_labels(r), m, h)) :
                /\ result' = res
                /\ df' = Shape(res, s)
          /\ IF Format(h, Etiqueta) = FormatError
             THEN /\ shown' = <<<<"dataframe", "df">>, <<"bar_chart", "df">>>>
                  /\ failure' = "format"
                  /\ pc' = "uncaught"
             ELSE /\ shown' = <<<<"dataframe", "df">>, <<"bar_chart", "df">>,
                                <<"info", "nli">>>>
                  /\ failure' = "none"
                  /\ pc' = "done"
    /\ calls' = calls + 1
    /\ UNCHANGED <<handle, loads>>

Next ==
    \/ StartRun
    \/ LoadCached
    \/ LoadModel
    \/ LoadFails
    \/ RunNoClick
    \/ ClassifyNoText
    \/ ClassifyNoLabels
    \/ ClassifyError
    \/ ClassifyOK

Spec == Init /\ [][Next]_vars

-----------------------------------------------------------------------------
(* parse_labels on its own: every raw string up to MaxLen characters *)

Defaults ==
    /\ handle = NoHandle
    /\ loads = 0
    /\ calls = 0
    /\ texto = <<>>
    /\ multi_label = TRUE
    /\ hypothesis_template = DefaultTemplate
    /\ clicked = FALSE
    /\ request = NoRequest
    /\ df = NoDf
    /\ shown = <<>>
    /\ failure = "none"

InitParse ==
    /\ pc = "parse_in"
    /\ raw_labels \in Strs(LabelChars, MaxLen)
    /\ labels = <<>>
    /\ result = NoResult
    /\ sort_desc = TRUE
    /\ Defaults

ParseStep ==
    /\ pc = "parse_in"
    /\ labels' = parse_labels(raw_labels)
    /\ pc' = "parse_out"
    /\ UNCHANGED <<handle, loads, calls, texto, raw_labels, multi_label,
                   hypothesis_template, sort_desc, clicked, request, result,
                   df, shown, failure>>

NextParse == ParseStep

SpecParse == InitParse /\ [][NextParse]_vars

-----------------------------------------------------------------------------
(* Lines 86-97 on their own: every aligned result of 1..MaxPairs pairs *)

ShapeLabels == {<<"a">>, <<"b">>}

ShapeInputs ==
    UNION {{[labels |-> l, scores |-> sc] :
               l \in [1..n -> ShapeLabels], sc \in [1..n -> 0..MaxScore]} :
           n \in 1..MaxPairs}

InitShape ==
    /\ pc = "shape_in"
    /\ result \in ShapeInputs
    /\ sort_desc \in BOOLEAN
    /\ raw_labels = <<>>
    /\ labels = <<>>
    /\ Defaults

ShapeStep ==
    /\ pc = "shape_in"
    /\ df' = Shape(result, sort_desc)
    /\ pc' = "shape_out"
    /\ UNCHANGED <<handle, loads, calls, texto, raw_labels, multi_label,
                   hypothesis_template, sort_desc, clicked, labels, request,
                   result, shown, failure>>

NextShape == ShapeStep

SpecShape == InitShape /\ [][NextShape]_vars

-----------------------------------------------------------------------------
(* Properties *)

Separators == {",", "\n"}

Last(s) == s[Len(s)]

\* The labels of raw read off its separator positions: the stretch between
\* two neighbouring separators, cut down to its first and last
\* non-whitespace character, when it has one.
RefParse(raw) ==
    LET n      == Len(raw)
        cuts   == {0} \cup {i \in 1..n : raw[i] \in Separators}
        end(lo) == Min({j \in (cuts \cup {n + 1}) : j > lo})
        ink(lo) == {i \in (lo + 1)..(end(lo) - 1) : raw[i] \notin Whitespace}
        starts == {lo \in cuts : ink(lo) # {}}
        nth(k) == CHOOSE lo \in starts : Cardinality({x \in starts : x < lo}) = k - 1
    IN  [k \in 1..Cardinality(starts) |->
            SubSeq(raw, Min(ink(nth(k))), Max(ink(nth(k))))]

\* C1: every label parse_labels returns is non-empty and has no whitespace
\* at either end, so no empty or all-whitespace piece of the input is
\* returned.
C1_TrimmedNonEmpty ==
    pc = "parse_out" =>
        \A i \in 1..Len(labels) :
            /\ labels[i] # <<>>
            /\ Head(labels[i]) \notin Whitespace
            /\ Last(labels[i]) \notin Whitespace

C1_Witness ==
    /\ pc = "parse_out"
    /\ raw_labels = <<" ", "a", " ", ",", " ">>
    /\ labels = << <<"a">> >>

\* C2: parse_labels(raw) is the list of trimmed non-empty pieces between
\* separators, in input order with duplicates kept; commas and newlines are
\* interchangeable; the two examples of the specification hold.
C2_ParseMatchesReference ==
    /\ pc = "parse_out" =>
          /\ labels = RefParse(raw_labels)
          /\ parse_labels(Replace(raw_labels, ",", "\n")) = labels
          /\ parse_labels(Replace(raw_labels, "\n", ",")) = labels
    /\ parse_labels(<<>>) = <<>>
    /\ parse_labels(<<"a", ",", " ", "b", "\n", "c", ",", ",", " ", "d", " ">>)
          = << <<"a">>, <<"b">>, <<"c">>, <<"d">> >>

C2_Witness ==
    /\ pc = "parse_out"
    /\ raw_labels = <<"b", "\n", "a", ",", "b">>
    /\ labels = << <<"b">>, <<"a">>, <<"b">> >>

Blank(t) == \A i \in 1..Len(t) : t[i] \in Whitespace

OnlySeparators(r) == \A i \in 1..Len(r) : r[i] \in Whitespace \cup Separators

\* C3: a classify action invokes inference only when the text is not blank
\* and the label input holds a label; otherwise it ends with one warning and
\* the number of inference calls is unchanged.
C3_NoInferenceWhenInvalid ==
    [][(pc = "loaded" /\ clicked') =>
          /\ (calls' # calls \/ request' # NoRequest) =>
                (~Blank(texto') /\ ~OnlySeparators(raw_labels'))
          /\ (Blank(texto') \/ OnlySeparators(raw_labels')) =>
                /\ calls' = calls
                /\ request' = NoRequest
                /\ pc' = "stopped"
                /\ Len(shown') = 1
                /\ shown'[1][1] = "warning"]_vars

C3_Witness ==
    /\ pc = "stopped"
    /\ clicked
    /\ texto = <<" ">>
    /\ labels # <<>>
    /\ shown = << <<"warning", "texto">> >>
    /\ request = NoRequest
    /\ calls = 0

\* C4: when the inference call raises, the handler shows one error message
\* carrying the cause, shows no table or chart, stops, and a new run can
\* start.
C4_InferenceErrorCaught ==
    failure \in {"template", "runtime"} =>
        /\ pc = "stopped"
        /\ shown = << <<"error", failure>> >>
        /\ df = NoDf
        /\ result = NoResult
        /\ ENABLED StartRun

C4_Witness ==
    /\ failure = "runtime"
    /\ pc = "stopped"
    /\ shown = << <<"error", "runtime">> >>
    /\ calls = 1

\* C5: every failure coming from the model is caught and shown as an error
\* message, and no exception leaves the script run.
C5_NoErrorEscapes ==
    /\ pc # "uncaught"
    /\ failure # "none" =>
          /\ pc = "stopped"
          /\ Len(shown) = 1
          /\ shown[1][1] = "error"

RECURSIVE LabelsScored(_, _, _)
LabelsScored(ls, scs, v) ==
    IF ls = <<>> THEN <<>>
    ELSE (IF Head(scs) = v THEN <<Head(ls)>> ELSE <<>>)
            \o LabelsScored(Tail(ls), Tail(scs), v)

Column(rows, name) == [i \in 1..Len(rows) |-> rows[i][name]]

\* C6: with sort_desc the score column of the table never increases from
\* one row to the next.
C6_ScoresNonIncreasing ==
    (pc = "shape_out" /\ sort_desc) =>
        \A i \in 1..(Len(df) - 1) : df[i].Puntaje >= df[i + 1].Puntaje

C6_Witness ==
    /\ pc = "shape_out"
    /\ sort_desc
    /\ result.scores = <<0, 2, 1>>
    /\ Column(df, "Puntaje") = <<2, 1, 0>>

\* C7: the descending sort is stable: for each score, the labels carrying
\* it appear in the table in the order the result had them.
C7_SortStable ==
    (pc = "shape_out" /\ sort_desc) =>
        \A v \in 0..MaxScore :
            LabelsScored(Column(df, "Etiqueta"), Column(df, "Puntaje"), v)
                = LabelsScored(result.labels, result.scores, v)

C7_Witness ==
    /\ pc = "shape_out"
    /\ sort_desc
    /\ result = [labels |-> << <<"a">>, <<"b">>, <<"b">> >>, scores |-> <<1, 1, 2>>]
    /\ Column(df, "Etiqueta") = << <<"b">>, <<"a">>, <<"b">> >>

\* C8: without sort_desc row i of the table is the i-th (label, score)
\* pair of the result.
C8_OrderPreserved ==
    (pc = "shape_out" /\ ~sort_desc) =>
        /\ Len(df) = Len(result.labels)
        /\ \A i \in 1..Len(df) :
              /\ df[i].Etiqueta = result.labels[i]
              /\ df[i].Puntaje = result.scores[i]

C8_Witness ==
    /\ pc = "shape_out"
    /\ ~sort_desc
    /\ result.scores = <<0, 2, 1>>
    /\ Column(df, "Puntaje") = <<0, 2, 1>>

Count(seq, x) == Cardinality({i \in 1..Len(seq) : seq[i] = x})

Rows(rows) == [i \in 1..Len(rows) |-> <<rows[i].Etiqueta, rows[i].Puntaje>>]

\* C9: the table has one row per candidate label, and its rows are the
\* (label, score) pairs of the result, each as often as the result has it.
C9_RowsArePairs ==
    result # NoResult =>
        /\ Len(df) = Len(request.candidate_labels)
        /\ Len(df) = Len(labels)
        /\ LET pairs == Zip(result.labels, result.scores)
           IN  /\ Len(pairs) = Len(df)
               /\ \A i \in 1..Len(pairs) :
                     Count(Rows(df), pairs[i]) = Count(pairs, pairs[i])

C9_Witness ==
    /\ pc = "done"
    /\ sort_desc
    /\ Len(df) = 2
    /\ result.scores = <<0, 1>>
    /\ Column(df, "Puntaje") = <<1, 0>>
    /\ request.multi_label = multi_label

FreshNamespace ==
    /\ labels = <<>>
    /\ request = NoRequest
    /\ result = NoResult
    /\ df = NoDf
    /\ shown = <<>>
    /\ failure = "none"

\* C10: the model is built at most once, on the first run that needs it,
\* and the cached handle is never replaced; every run starts with nothing
\* left of earlier requests.
C10_HandleBuiltOnce ==
    /\ [](/\ loads <= 1
          /\ (handle = NoHandle) <=> (loads = 0)
          /\ pc \in {"loaded", "done", "stopped"} => handle # NoHandle
          /\ pc = "start" => FreshNamespace)
    /\ [][handle # NoHandle => handle' = handle]_vars

C10_Witness ==
    /\ pc = "loaded"
    /\ loads = 1
    /\ calls = 1
    /\ handle = 1

====
